---- MODULE Spec2Model ----
(***************************************************************************)
(* Model of api/index.js: an Express application in front of a MongoDB     *)
(* client.  The state is the module-level connection pair (db,             *)
(* isConnected), the three collections the handlers touch, and one record  *)
(* per HTTP request holding the position of its handler (the awaits are    *)
(* the points where handlers interleave), its input, its locals and the    *)
(* response it sent.                                                       *)
(***************************************************************************)
EXTENDS Integers, Sequences, FiniteSets

\* ---------------------------------------------------------------- bounds

\* Number of HTTP requests the process receives.
MaxReqs == 2

\* Largest value of the wall clock (new Date()).
MaxTime == 1

\* ------------------------------------------------------- strings and ids

\* n copies of the character c.
Rep(c, n) == [i \in 1..n |-> c]

\* Length of the hex form of a native object identifier.
ObjectIdLen == 24

LowerHex == {"0", "1", "2", "3", "4", "5", "6", "7", "8", "9",
             "a", "b", "c", "d", "e", "f"}

UpperHex == {"A", "B", "C", "D", "E", "F"}

\* Lower-casing of one character of an identifier.
ToLower(c) ==
  CASE c = "A" -> "a" [] c = "B" -> "b" [] c = "C" -> "c"
    [] c = "D" -> "d" [] c = "E" -> "e" [] c = "F" -> "f"
    [] OTHER -> c

\* ObjectId.isValid for a path segment: 24 hex characters.
IsHex24(s) ==
  /\ Len(s) = ObjectIdLen
  /\ \A i \in 1..Len(s) : s[i] \in LowerHex \cup UpperHex

\* Values of _id: a native object identifier (kept as its lower-case hex
\* form) or a plain string.
Oid(h) == [t |-> "oid", v |-> h]

Str(s) == [t |-> "string", v |-> s]

\* Variant of ObjectIdOrString without the catch branch: every path segment
\* is made a native identifier.
ObjectIdOrString_NoFallback(id) == Oid([i \in 1..Len(id) |-> ToLower(id[i])])

\* try { new ObjectId(id) } catch { id }: the key the by-id handlers query.
ObjectIdOrString(id) ==
  IF IsHex24(id)
    THEN Oid([i \in 1..Len(id) |-> ToLower(id[i])])
    ELSE Str(id)

\* The identifier the driver generates for the n-th insertOne.
GenDigits == <<"a", "b", "c", "d", "e", "f", "0", "1", "2", "3">>

GenHex(n) == Rep(GenDigits[n], ObjectIdLen)

\* ----------------------------------------------------------- JSON values

\* A field of the request body: missing, a string, or a number.
Undefined == [t |-> "undefined", v |-> <<>>]

Text(s) == [t |-> "string", v |-> s]

Num(s) == [t |-> "number", v |-> s]

\* !x of JavaScript on these values.
Falsy(x) ==
  \/ x.t = "undefined"
  \/ x.t = "string" /\ x.v = <<>>
  \/ x.t = "number" /\ x.v = <<"0">>

\* String(x), the coercion RegExp.prototype.test applies.
StringOf(x) ==
  IF x.t = "undefined"
    THEN <<"u", "n", "d", "e", "f", "i", "n", "e", "d">>
    ELSE x.v

WhiteSpace == {" "}

\* [^\s@]+ on s[a..b]
NoSpaceAt(s, a, b) ==
  /\ a <= b
  /\ \A k \in a..b : s[k] \notin WhiteSpace \cup {"@"}

\* /^[^\s@]+@[^\s@]+\.[^\s@]+$/.test(x)
EmailRegexTest(x) ==
  LET s == StringOf(x) IN
  \E i \in 1..Len(s) : \E j \in 1..Len(s) :
    /\ s[i] = "@"
    /\ s[j] = "."
    /\ NoSpaceAt(s, 1, i - 1)
    /\ NoSpaceAt(s, i + 1, j - 1)
    /\ NoSpaceAt(s, j + 1, Len(s))

RECURSIVE TrimStart(_)
TrimStart(s) ==
  IF s # <<>> /\ Head(s) \in WhiteSpace THEN TrimStart(Tail(s)) ELSE s

RECURSIVE TrimEnd(_)
TrimEnd(s) ==
  IF s # <<>> /\ s[Len(s)] \in WhiteSpace
    THEN TrimEnd(SubSeq(s, 1, Len(s) - 1))
    ELSE s

\* String.prototype.trim
Trim(s) == TrimEnd(TrimStart(s))

\* x.trim() throws a TypeError unless x is a string.
HasTrim(x) == x.t = "string"

\* ------------------------------------------------------------------ state

VARIABLES
  db,             \* the shared handle: "undefined" or "handle"
  isConnected,    \* the connection flag
  podcasts,       \* the podcasts collection
  videos,         \* the videos collection
  messages,       \* the messages collection
  reqs,           \* one record per request
  now,            \* the wall clock
  oidCounter,     \* identifiers the driver has generated
  connectIssued,  \* calls of client.connect() made
  connectFailed   \* calls of client.connect() that rejected

vars == <<db, isConnected, podcasts, videos, messages, reqs, now,
          oidCounter, connectIssued, connectFailed>>

Reqs == 1..MaxReqs

Handle == "handle"

ListEps == {"podcasts", "videos", "messages"}

ByIdEps == {"podcast", "video", "message", "markRead"}

\* The collection a handler reads.
Coll(ep) ==
  CASE ep \in {"podcasts", "podcast"} -> podcasts
    [] ep \in {"videos", "video"} -> videos
    [] OTHER -> messages

\* Path identifiers the requests use.
HexA == Rep("a", ObjectIdLen)

StrKey == <<"a", "b", "c">>

PathIds == {HexA, StrKey}

\* Bodies of the contact requests.
GoodEmail == Text(<<"a", "@", "b", ".", "c">>)

Body(n, e, m) == [name |-> n, email |-> e, message |-> m]

Bodies ==
  { Body(Text(<<" ", "a", " ">>), GoodEmail, Text(<<"h", "i">>)),
    Body(Text(<<" ">>), GoodEmail, Text(<<"h", "i">>)),
    Body(Num(<<"5">>), GoodEmail, Text(<<"h", "i">>)),
    Body(Undefined, GoodEmail, Text(<<"h", "i">>)),
    Body(Text(<<"a">>), GoodEmail, Text(<<>>)),
    Body(Text(<<"a">>), Undefined, Text(<<"h", "i">>)),
    Body(Text(<<"a">>), Text(<<"a", "@", "b">>), Text(<<"h", "i">>)),
    Body(Text(<<"a">>), Text(<<" ", "a", "@", "b", ".", "c">>), Text(<<"h", "i">>)) }

NoBody == Body(Undefined, Undefined, Undefined)

\* The response body: the fields the handlers put in it.
NoRes == [text |-> "", docs |-> <<>>, id |-> <<>>, counts |-> <<>>, samples |-> <<>>]

Idle ==
  [pc |-> "idle", ep |-> "none", id |-> <<>>, body |-> NoBody,
   date |-> 0, oid |-> <<>>, step |-> 0,
   status |-> 0, res |-> NoRes, sent |-> 0, failed |-> FALSE]

Init ==
  /\ db = "undefined"
  /\ isConnected = FALSE
  /\ podcasts = { [_id |-> Oid(HexA), date |-> 2],
                  [_id |-> Str(StrKey), date |-> 1] }
  /\ videos = {}
  /\ messages = { [_id |-> Str(StrKey), name |-> <<"o">>, email |-> <<"o", "@", "o", ".", "o">>,
                   message |-> <<"o">>, createdAt |-> 0, read |-> FALSE, readAt |-> {}] }
  /\ reqs = [r \in Reqs |-> Idle]
  /\ now = 0
  /\ oidCounter = 0
  /\ connectIssued = 0
  /\ connectFailed = 0

\* ---------------------------------------------------------------- helpers

\* res.status(st).json(body): the handler's response; it ends the handler.
Answer(q, st, body) ==
  [q EXCEPT !.pc = "done", !.status = st, !.res = body, !.sent = @ + 1]

\* The status of the catch block of each handler.
ErrStatus(ep) == IF ep \in {"podcasts", "videos", "debug"} THEN 503 ELSE 500

ErrBody == [NoRes EXCEPT !.text = "error"]

\* new Date(): the clock may have advanced since it was last read.
ClockReadings == {t \in now..(now + 1) : t <= MaxTime}

\* The sort key of each list handler.
SortKey(ep, d) == IF ep = "messages" THEN d.createdAt ELSE d.date

\* find({}).sort({key: -1}).toArray(): the orders the store may return.
SortedDesc(ep) ==
  LET c == Coll(ep)
      n == Cardinality(c)
  IN { s \in [1..n -> c] :
         /\ \A i \in 1..n : \A j \in 1..n : i # j => s[i] # s[j]
         /\ \A i \in 1..n : \A j \in 1..n :
              i < j => SortKey(ep, s[i]) >= SortKey(ep, s[j]) }

\* Variant of ContactMessage that stores the message as already read.
ContactMessage_Read(q) ==
  [_id |-> Oid(q.oid),
   name |-> Trim(q.body.name.v),
   email |-> Trim(q.body.email.v),
   message |-> Trim(q.body.message.v),
   createdAt |-> q.date,
   read |-> TRUE,
   readAt |-> {}]

\* The document contactMessage, with the identifier insertOne gives it.
ContactMessage(q) ==
  [_id |-> Oid(q.oid),
   name |-> Trim(q.body.name.v),
   email |-> Trim(q.body.email.v),
   message |-> Trim(q.body.message.v),
   createdAt |-> q.date,
   read |-> FALSE,
   readAt |-> {}]

\* Variant of Matched whose filter also asks for read: false.
Matched_Unread(key) == {d \in messages : d._id = key /\ ~d.read}

\* The documents the filter of updateOne matches in the messages collection.
Matched(key) == {d \in messages : d._id = key}

\* { $set: { read: true, readAt: new Date() } } applied to the matched one.
UpdateOne(key, t) ==
  {IF d \in Matched(key) THEN [d EXCEPT !.read = TRUE, !.readAt = {t}] ELSE d :
     d \in messages}

\* { _id, keys: Object.keys(doc) } of findOne({}), or null (the empty set).
Samples(c) == IF c = {} THEN {{}} ELSE {{[_id |-> d._id, keys |-> DOMAIN d]} : d \in c}

\* ----------------------------------------------------------------- steps

\* The handler's code from the return of connectDB() to its next await.
\* q is the request's record; the first store operation is issued, except
\* that contactMessage's trim() calls throw on a value that is no string.
Continue(r, q) ==
  IF q.ep = "contact"
    THEN IF HasTrim(q.body.name) /\ HasTrim(q.body.email) /\ HasTrim(q.body.message)
           THEN \E t \in ClockReadings :
                  /\ now' = t
                  /\ oidCounter' = oidCounter + 1
                  /\ reqs' = [reqs EXCEPT ![r] =
                       [q EXCEPT !.pc = "query", !.date = t,
                                 !.oid = GenHex(oidCounter + 1)]]
           ELSE /\ reqs' = [reqs EXCEPT ![r] = Answer(q, 500, ErrBody)]
                /\ UNCHANGED <<now, oidCounter>>
    ELSE IF q.ep = "markRead"
      THEN \E t \in ClockReadings :
             /\ now' = t
             /\ reqs' = [reqs EXCEPT ![r] =
                  [q EXCEPT !.pc = "query", !.date = t]]
             /\ UNCHANGED oidCounter
      ELSE /\ reqs' = [reqs EXCEPT ![r] =
                  [q EXCEPT !.pc = "query", !.step = 1]]
           /\ UNCHANGED <<now, oidCounter>>

\* await connectDB(), called by the request whose record is q.
ConnectDB(r, q) ==
  IF isConnected /\ db = Handle
    THEN /\ Continue(r, q)
         /\ UNCHANGED <<db, isConnected, connectIssued>>
    ELSE /\ reqs' = [reqs EXCEPT ![r] = [q EXCEPT !.pc = "connecting"]]
         /\ connectIssued' = connectIssued + 1
         /\ UNCHANGED <<db, isConnected, now, oidCounter>>

\* A request arrives: requests are numbered in the order they arrive.
Arrives(r) ==
  /\ reqs[r].pc = "idle"
  /\ r > 1 => reqs[r - 1].pc # "idle"

\* Variant of Health that reports the connection as soon as a connect was
\* started.
Health_Eager(r) ==
  /\ Arrives(r)
  /\ reqs' = [reqs EXCEPT ![r] =
       Answer([@ EXCEPT !.ep = "health"], 200,
              [NoRes EXCEPT !.text = IF connectIssued > connectFailed
                                       THEN "connected" ELSE "disconnected"])]
  /\ UNCHANGED <<db, isConnected, podcasts, videos, messages, now,
                 oidCounter, connectIssued, connectFailed>>

\* GET /api/health
Health(r) ==
  /\ Arrives(r)
  /\ reqs' = [reqs EXCEPT ![r] =
       Answer([@ EXCEPT !.ep = "health"], 200,
              [NoRes EXCEPT !.text = IF isConnected THEN "connected" ELSE "disconnected"])]
  /\ UNCHANGED <<db, isConnected, podcasts, videos, messages, now,
                 oidCounter, connectIssued, connectFailed>>

\* The handlers that start with await connectDB().
Request(r, e, id) ==
  /\ Arrives(r)
  /\ ConnectDB(r, [reqs[r] EXCEPT !.ep = e, !.id = id])
  /\ UNCHANGED <<podcasts, videos, messages, connectFailed>>

\* Variant of PostContact that stores the body before it validates it.
PostContact_InsertFirst(r, b) ==
  /\ Arrives(r)
  /\ messages' = messages \cup
       {[_id |-> Str(StringOf(b.email)), name |-> StringOf(b.name),
         email |-> StringOf(b.email), message |-> StringOf(b.message),
         createdAt |-> now, read |-> FALSE, readAt |-> {}]}
  /\ reqs' = [reqs EXCEPT ![r] =
       Answer([@ EXCEPT !.ep = "contact", !.body = b],
              IF Falsy(b.name) \/ Falsy(b.email) \/ Falsy(b.message)
                 \/ ~EmailRegexTest(b.email) THEN 400 ELSE 201,
              NoRes)]
  /\ UNCHANGED <<db, isConnected, podcasts, videos, now, oidCounter,
                 connectIssued, connectFailed>>

\* POST /api/contact, to its first await.
PostContact(r, b) ==
  /\ Arrives(r)
  /\ LET q == [reqs[r] EXCEPT !.ep = "contact", !.body = b] IN
     IF Falsy(b.name) \/ Falsy(b.email) \/ Falsy(b.message)
       THEN /\ reqs' = [reqs EXCEPT ![r] =
                 Answer(q, 400, [NoRes EXCEPT !.text = "All fields are required"])]
            /\ UNCHANGED <<db, isConnected, now, oidCounter, connectIssued>>
       ELSE IF ~EmailRegexTest(b.email)
         THEN /\ reqs' = [reqs EXCEPT ![r] =
                   Answer(q, 400, [NoRes EXCEPT !.text = "Invalid email address"])]
              /\ UNCHANGED <<db, isConnected, now, oidCounter, connectIssued>>
         ELSE ConnectDB(r, q)
  /\ UNCHANGED <<podcasts, videos, messages, connectFailed>>

\* client.connect() resolves: db and isConnected are set, connectDB returns.
ConnectOk(r) ==
  /\ reqs[r].pc = "connecting"
  /\ db' = Handle
  /\ isConnected' = TRUE
  /\ Continue(r, reqs[r])
  /\ UNCHANGED <<podcasts, videos, messages, connectIssued, connectFailed>>

\* Variant of ConnectFail in which connectDB sets the flag before the connect
\* has resolved.
ConnectFail_SetsFlag(r) ==
  /\ reqs[r].pc = "connecting"
  /\ connectFailed' = connectFailed + 1
  /\ isConnected' = TRUE
  /\ reqs' = [reqs EXCEPT ![r] =
       Answer([@ EXCEPT !.failed = TRUE], ErrStatus(@.ep), ErrBody)]
  /\ UNCHANGED <<db, podcasts, videos, messages, now, oidCounter, connectIssued>>

\* client.connect() rejects: connectDB rethrows, the handler's catch answers.
ConnectFail(r) ==
  /\ reqs[r].pc = "connecting"
  /\ connectFailed' = connectFailed + 1
  /\ reqs' = [reqs EXCEPT ![r] =
       Answer([@ EXCEPT !.failed = TRUE], ErrStatus(@.ep), ErrBody)]
  /\ UNCHANGED <<db, isConnected, podcasts, videos, messages, now,
                 oidCounter, connectIssued>>

\* find({}).sort(...).toArray() resolves.
ListDone(r) ==
  /\ reqs[r].pc = "query"
  /\ reqs[r].ep \in ListEps
  /\ \E s \in SortedDesc(reqs[r].ep) :
       reqs' = [reqs EXCEPT ![r] = Answer(@, 200, [NoRes EXCEPT !.docs = s])]
  /\ UNCHANGED <<db, isConnected, podcasts, videos, messages, now,
                 oidCounter, connectIssued, connectFailed>>

\* findOne(query) resolves in GET /api/podcasts/:id, videos/:id, messages/:id.
FindOneDone(r) ==
  /\ reqs[r].pc = "query"
  /\ reqs[r].ep \in {"podcast", "video", "message"}
  /\ LET found == {d \in Coll(reqs[r].ep) : d._id = ObjectIdOrString(reqs[r].id)} IN
     IF found = {}
       THEN reqs' = [reqs EXCEPT ![r] = Answer(@, 404, [NoRes EXCEPT !.text = "not found"])]
       ELSE \E d \in found :
              reqs' = [reqs EXCEPT ![r] = Answer(@, 200, [NoRes EXCEPT !.docs = <<d>>])]
  /\ UNCHANGED <<db, isConnected, podcasts, videos, messages, now,
                 oidCounter, connectIssued, connectFailed>>

\* updateOne(query, $set) resolves in PUT /api/messages/:id/read.
UpdateOneDone(r) ==
  /\ reqs[r].pc = "query"
  /\ reqs[r].ep = "markRead"
  /\ LET key == ObjectIdOrString(reqs[r].id)
         matchedCount == Cardinality(Matched(key))
     IN /\ messages' = UpdateOne(key, reqs[r].date)
        /\ IF matchedCount = 0
             THEN reqs' = [reqs EXCEPT ![r] =
                    Answer(@, 404, [NoRes EXCEPT !.text = "Message not found"])]
             ELSE reqs' = [reqs EXCEPT ![r] =
                    Answer(@, 200, [NoRes EXCEPT !.text = "Message marked as read"])]
  /\ UNCHANGED <<db, isConnected, podcasts, videos, now,
                 oidCounter, connectIssued, connectFailed>>

\* insertOne(contactMessage) resolves in POST /api/contact.
InsertOneDone(r) ==
  /\ reqs[r].pc = "query"
  /\ reqs[r].ep = "contact"
  /\ messages' = messages \cup {ContactMessage(reqs[r])}
  /\ reqs' = [reqs EXCEPT ![r] =
       Answer(@, 201, [NoRes EXCEPT !.text = "Message sent successfully",
                                     !.id = reqs[r].oid])]
  /\ UNCHANGED <<db, isConnected, podcasts, videos, now,
                 oidCounter, connectIssued, connectFailed>>

\* GET /api/debug: countDocuments twice, findOne({}) twice, then the answer.
DebugStep(r) ==
  /\ reqs[r].pc = "query"
  /\ reqs[r].ep = "debug"
  /\ LET q == reqs[r] IN
     CASE q.step = 1 ->
            reqs' = [reqs EXCEPT ![r] =
              [q EXCEPT !.step = 2,
                        !.res.counts = <<Cardinality(podcasts)>>]]
       [] q.step = 2 ->
            reqs' = [reqs EXCEPT ![r] =
              [q EXCEPT !.step = 3,
                        !.res.counts = Append(@, Cardinality(videos))]]
       [] q.step = 3 ->
            \E s \in Samples(podcasts) :
              reqs' = [reqs EXCEPT ![r] =
                [q EXCEPT !.step = 4, !.res.samples = <<s>>]]
       [] OTHER ->
            \E s \in Samples(videos) :
              reqs' = [reqs EXCEPT ![r] =
                Answer(q, 200,
                       [q.res EXCEPT !.samples = Append(@, s),
                                     !.text = IF isConnected THEN "connected"
                                                             ELSE "disconnected"])]
  /\ UNCHANGED <<db, isConnected, podcasts, videos, messages, now,
                 oidCounter, connectIssued, connectFailed>>

\* Variant of QueryFail with no catch block: the rejection ends the handler
\* and nothing is answered.
QueryFail_Uncaught(r) ==
  /\ reqs[r].pc = "query"
  /\ reqs' = [reqs EXCEPT ![r] = [@ EXCEPT !.pc = "thrown", !.failed = TRUE]]
  /\ UNCHANGED <<db, isConnected, podcasts, videos, messages, now,
                 oidCounter, connectIssued, connectFailed>>

\* A store operation rejects: the handler's catch answers.
QueryFail(r) ==
  /\ reqs[r].pc = "query"
  /\ reqs' = [reqs EXCEPT ![r] =
       Answer([@ EXCEPT !.failed = TRUE], ErrStatus(@.ep), ErrBody)]
  /\ UNCHANGED <<db, isConnected, podcasts, videos, messages, now,
                 oidCounter, connectIssued, connectFailed>>

\* What the store or the driver does for request r.
StoreStep(r) ==
  \/ ConnectOk(r)
  \/ ConnectFail(r)
  \/ ListDone(r)
  \/ FindOneDone(r)
  \/ UpdateOneDone(r)
  \/ InsertOneDone(r)
  \/ DebugStep(r)
  \/ QueryFail(r)

Next ==
  \E r \in Reqs :
    \/ Health(r)
    \/ \E e \in ListEps \cup {"debug"} : Request(r, e, <<>>)
    \/ \E e \in ByIdEps : \E id \in PathIds : Request(r, e, id)
    \/ \E b \in Bodies : PostContact(r, b)
    \/ StoreStep(r)

Spec == Init /\ [][Next]_vars

\* The store answers every operation it was sent, with a result or an error.
LiveSpec == Spec /\ \A r \in Reqs : WF_vars(StoreStep(r))

\* ------------------------------------------------------------ properties

\* The step in which the handler of r sends its answer.
Answers(r) == reqs[r].pc # "done" /\ reqs'[r].pc = "done"

\* The step in which a store operation of r, issued earlier, has its outcome.
Completes(r) == reqs[r].pc = "query" /\ reqs'[r].pc = "done"

\* The step in which request r arrives.
Arriving(r) == reqs[r].pc = "idle" /\ reqs'[r].pc # "idle"

\* The documents of collection c the path identifier id designates: those
\* with the native identifier it parses to or, when it does not parse, those
\* whose key is the string itself.
Designated(c, id) ==
  {d \in c :
     IF IsHex24(id)
       THEN d._id.t = "oid" /\ d._id.v = [i \in 1..Len(id) |-> ToLower(id[i])]
       ELSE d._id.t = "string" /\ d._id.v = id}

\* A string that is not empty.
NonEmptyText(x) == x.t = "string" /\ x.v # <<>>

\* A field that is absent, or empty once trimmed.
Blank(x) == x.t = "undefined" \/ (x.t = "string" /\ Trim(x.v) = <<>>)

\* C1: connectDB performs the real connect at most once per process: apart
\* from attempts that failed, no second client.connect() is ever issued,
\* whatever the interleaving of the requests.
C1_ConnectAtMostOnce == connectIssued - connectFailed <= 1

\* C2: a failed connect is answered 503 or 500 to the request that made the
\* attempt and to no other, leaves the flag and the handle as they were
\* (unset), and a request that calls connectDB after a failure, with the flag
\* unset, issues a fresh client.connect().
C2_FailedConnectNotCached ==
  [][\A r \in Reqs :
       /\ (reqs[r].pc = "connecting" /\ reqs'[r].failed) =>
            /\ reqs'[r].pc = "done"
            /\ reqs'[r].sent = 1
            /\ reqs'[r].status \in {500, 503}
            /\ \A q \in Reqs \ {r} : reqs'[q] = reqs[q]
            /\ isConnected' = isConnected
            /\ db' = db
       /\ (/\ Arriving(r)
           /\ connectFailed > 0
           /\ ~isConnected
           /\ reqs'[r].ep # "health"
           /\ reqs'[r].status # 400) =>
            /\ reqs'[r].pc = "connecting"
            /\ connectIssued' = connectIssued + 1]_vars

\* A connect failed and was answered, the flag is unset, and another request
\* has a connect of its own under way with no connect left from before.
C2_Witness ==
  \E r \in Reqs : \E q \in Reqs :
    /\ reqs[r].pc = "done" /\ reqs[r].failed /\ reqs[r].status \in {500, 503}
    /\ ~isConnected /\ db = "undefined"
    /\ connectFailed = 1 /\ connectIssued = 2
    /\ reqs[q].pc = "connecting"

\* C3: a contact request with non-empty name and message and a matching
\* email, whose store calls succeed, is answered 201 with the generated
\* identifier; its insert adds exactly one message, unread and with createdAt
\* set; and a Get Message by that identifier, its store call succeeding, is
\* answered 200 with that message, unread as long as no Mark Message Read
\* has stamped it.
C3_ContactThenGet ==
  [][\A r \in Reqs :
       /\ (/\ reqs[r].ep = "contact"
           /\ Answers(r)
           /\ ~reqs'[r].failed
           /\ NonEmptyText(reqs'[r].body.name)
           /\ NonEmptyText(reqs'[r].body.message)
           /\ NonEmptyText(reqs'[r].body.email)
           /\ EmailRegexTest(reqs'[r].body.email)) =>
            /\ reqs'[r].status = 201
            /\ Len(reqs'[r].res.id) = ObjectIdLen
            /\ \A d \in messages : d._id # Oid(reqs'[r].res.id)
            /\ \E d \in messages' :
                 /\ messages' = messages \cup {d}
                 /\ d._id = Oid(reqs'[r].res.id)
                 /\ d.read = FALSE
                 /\ d.readAt = {}
                 /\ d.createdAt \in 0..now
       /\ (Arriving(r) /\ reqs'[r].ep = "contact" /\ reqs'[r].status # 400) =>
            messages' = messages
       /\ (/\ reqs[r].ep = "message"
           /\ Completes(r)
           /\ ~reqs'[r].failed
           /\ \E c \in Reqs : /\ reqs[c].ep = "contact"
                              /\ reqs[c].status = 201
                              /\ reqs[c].res.id = reqs[r].id) =>
            /\ reqs'[r].status = 200
            /\ Len(reqs'[r].res.docs) = 1
            /\ reqs'[r].res.docs[1] \in messages
            /\ reqs'[r].res.docs[1]._id = Oid(reqs[r].id)
            /\ reqs'[r].res.docs[1].readAt = {} => reqs'[r].res.docs[1].read = FALSE]_vars

\* A contact request was answered 201 and a Get Message by the identifier it
\* returned was answered 200 with the unread message.
C3_Witness ==
  \E c \in Reqs : \E r \in Reqs :
    /\ reqs[c].ep = "contact" /\ reqs[c].status = 201
    /\ reqs[r].ep = "message" /\ reqs[r].status = 200
    /\ reqs[r].id = reqs[c].res.id
    /\ reqs[r].res.docs[1].read = FALSE
    /\ reqs[r].res.docs[1].name = <<"a">>

\* C4: Submit Contact answers 400 for every body in which name, email or
\* message is absent or empty after trimming, and for every email that does
\* not match the pattern; it answers 201 only when all three are non-empty
\* after trimming and the email matches.  (Stated of the requests none of
\* whose store calls failed.)
C4_BlankFieldsRejected ==
  \A r \in Reqs :
    (reqs[r].pc = "done" /\ reqs[r].ep = "contact" /\ ~reqs[r].failed) =>
      LET b == reqs[r].body
          bad == \/ Blank(b.name) \/ Blank(b.email) \/ Blank(b.message)
                 \/ ~EmailRegexTest(b.email)
      IN /\ bad => reqs[r].status = 400
         /\ reqs[r].status = 201 => ~bad

\* C5: the step in which Submit Contact answers 400 is the request's first:
\* no connect and no store operation was issued for it, and the messages
\* collection, like the other two, is as it was.
C5_RejectionInsertsNothing ==
  [][\A r \in Reqs :
       (reqs'[r].status = 400 /\ reqs[r].status # 400) =>
         /\ reqs[r].pc = "idle"
         /\ reqs'[r].pc = "done"
         /\ reqs'[r].ep = "contact"
         /\ messages' = messages
         /\ podcasts' = podcasts
         /\ videos' = videos
         /\ connectIssued' = connectIssued
         /\ oidCounter' = oidCounter]_vars

\* A contact request was answered 400 while the messages collection holds
\* what it held at the start.
C5_Witness ==
  \E r \in Reqs :
    /\ reqs[r].ep = "contact" /\ reqs[r].status = 400
    /\ Cardinality(messages) = 1
    /\ \E q \in Reqs : reqs[q].ep = "contact" /\ reqs[q].status = 400
                       /\ reqs[q].body.name # reqs[r].body.name

\* C6: no step takes read from true to false on any message, and a Mark
\* Message Read whose update succeeds on an existing message, read already
\* or not, is answered 200 and leaves that message read with readAt stamped.
C6_MarkReadIdempotent ==
  [][/\ \A d \in messages : \E e \in messages' :
          e._id = d._id /\ (d.read => e.read)
     /\ \A r \in Reqs :
          (/\ reqs[r].ep = "markRead"
           /\ Completes(r)
           /\ ~reqs'[r].failed
           /\ Designated(messages, reqs[r].id) # {}) =>
            /\ reqs'[r].status = 200
            /\ \A d \in Designated(messages', reqs[r].id) :
                 d.read /\ d.readAt # {}
            /\ Designated(messages', reqs[r].id) # {}]_vars

\* Two Mark Message Read requests on the same message were both answered 200
\* and the message is read.
C6_Witness ==
  \E r \in Reqs : \E q \in Reqs :
    /\ r # q
    /\ reqs[r].ep = "markRead" /\ reqs[r].status = 200
    /\ reqs[q].ep = "markRead" /\ reqs[q].status = 200
    /\ reqs[r].id = reqs[q].id
    /\ \A d \in Designated(messages, reqs[r].id) : d.read

\* C7: in the four by-id handlers a path identifier that does not parse is
\* used as a string key and gives no error by itself: when the store call
\* succeeds the answer is 404 if no document has the resulting key and 200
\* otherwise, and a Mark Message Read that matches nothing leaves the
\* messages collection as it was.
C7_IdFallback ==
  [][\A r \in Reqs :
       (reqs[r].ep \in ByIdEps /\ Completes(r) /\ ~reqs'[r].failed) =>
         LET hits == Designated(Coll(reqs[r].ep), reqs[r].id) IN
         /\ hits = {} => reqs'[r].status = 404
         /\ hits # {} => reqs'[r].status = 200
         /\ (hits # {} /\ reqs[r].ep # "markRead") => reqs'[r].res.docs[1] \in hits
         /\ (hits = {} \/ reqs[r].ep # "markRead") => messages' = messages
         /\ Cardinality(messages') = Cardinality(messages)]_vars

\* One by-id request with an identifier that does not parse was answered 404,
\* another one 200.
C7_Witness ==
  \E r \in Reqs : \E q \in Reqs :
    /\ reqs[r].ep \in ByIdEps /\ ~IsHex24(reqs[r].id) /\ reqs[r].status = 404
    /\ reqs[q].ep \in ByIdEps /\ ~IsHex24(reqs[q].id) /\ reqs[q].status = 200

\* C8: a store failure is answered 503 in List Podcasts, List Videos and
\* Debug and 500 in the other handlers, and no handler answers 503 or 500
\* when its store calls succeeded.
C8_ErrorStatusOnlyOnStoreFailure ==
  \A r \in Reqs :
    reqs[r].pc = "done" =>
      /\ reqs[r].failed =>
           reqs[r].status = IF reqs[r].ep \in {"podcasts", "videos", "debug"}
                              THEN 503 ELSE 500
      /\ reqs[r].status \in {500, 503} => reqs[r].failed

\* C9: Health is answered 200 in the step it arrives, reports "connected"
\* exactly when the store handle exists, and starts no connect and changes
\* neither the flag nor the handle.
C9_HealthAlwaysOk ==
  [][\A r \in Reqs :
       (Arriving(r) /\ reqs'[r].ep = "health") =>
         /\ reqs'[r].pc = "done"
         /\ reqs'[r].status = 200
         /\ reqs'[r].sent = 1
         /\ reqs'[r].res.text = "connected" <=> db = Handle
         /\ reqs'[r].res.text \in {"connected", "disconnected"}
         /\ db' = db
         /\ isConnected' = isConnected
         /\ connectIssued' = connectIssued]_vars

\* Health answered "disconnected" while a connect was under way.
C9_Witness ==
  \E r \in Reqs : \E q \in Reqs :
    /\ reqs[r].ep = "health" /\ reqs[r].status = 200
    /\ reqs[r].res.text = "disconnected"
    /\ reqs[q].pc = "connecting"
    /\ connectIssued > connectFailed

\* C10: every request that has arrived is eventually answered, exactly once;
\* an answered request is never touched again; and the step in which a store
\* call of one request fails changes nothing but that request.
C10_EveryRequestAnswered ==
  /\ \A r \in Reqs : (reqs[r].pc # "idle") ~> (reqs[r].pc = "done" /\ reqs[r].sent = 1)
  /\ [](\A r \in Reqs : reqs[r].sent = IF reqs[r].pc = "done" THEN 1 ELSE 0)
  /\ [][\A r \in Reqs :
          /\ reqs[r].pc = "done" => reqs'[r] = reqs[r]
          /\ (~reqs[r].failed /\ reqs'[r].failed) =>
               /\ reqs'[r].pc = "done"
               /\ \A q \in Reqs \ {r} : reqs'[q] = reqs[q]
               /\ UNCHANGED <<db, isConnected, podcasts, videos, messages>>]_vars

\* A request whose store call failed was answered with the error, and a
\* request that arrived later was served.
C10_Witness ==
  \E r \in Reqs : \E q \in Reqs :
    /\ r < q
    /\ reqs[r].pc = "done" /\ reqs[r].failed /\ reqs[r].status \in {500, 503}
    /\ reqs[q].pc = "done" /\ ~reqs[q].failed /\ reqs[q].status \in {200, 201}
    /\ reqs[q].ep # "health"
====
